---- MODULE Spec2Model ----
(***************************************************************************)
(* rest_weather: the preference store (internal/storage) and the           *)
(* preference operations of the weather service (GetUserData, AddCity,     *)
(* DeleteCity, UpdateUserUnits).                                           *)
(*                                                                         *)
(* A Go string is a sequence of characters.  The characters are atoms:     *)
(* two cases of one letter, the comma, the space, one byte that is not     *)
(* valid UTF-8 and the Unicode replacement character U+FFFD.               *)
(***************************************************************************)
EXTENDS Integers, Sequences, FiniteSets, TLC

\* ------------------------------------------------------------------------
\* Bounds
\* ------------------------------------------------------------------------

\* longest raw city parameter handed to AddCity / DeleteCity
MaxRawLen == 3

\* longest city list in a document an isolated call starts from
MaxCities == 2

\* requests served in a concurrent run
MaxReqs == 4

\* the longest string given to validateURL on its own, in pieces
MaxURLLen == 5

\* the longest city parameter of a call that is made again, in characters
MaxRepeatLen == 2

\* how often a call is made again
MaxRepeats == 2

\* ------------------------------------------------------------------------
\* Characters and strings
\* ------------------------------------------------------------------------

Comma == ","

Space == " "

\* a byte >= 0x80 that does not start a valid UTF-8 sequence
BadByte == "xFF"

\* U+FFFD, utf8.RuneError
ReplChar == "uFFFD"

\* the characters a request parameter is made of
InputChars == {"a", "A", Comma, Space, BadByte}

\* all strings over S of length at most n
StringsUpTo(S, n) == UNION {[1..k -> S] : k \in 0..n}

\* unicode.SimpleFold orbit representative, as strings.EqualFold compares
\* runes; an invalid byte decodes to utf8.RuneError (width 1)
FoldRune(c) ==
    CASE c = "A" -> "a"
      [] c = BadByte -> ReplChar
      [] OTHER -> c

\* a comparison that does not fold case
EqualFoldExact(s, t) == s = t

\* strings.EqualFold
EqualFold(s, t) ==
    /\ Len(s) = Len(t)
    /\ \A i \in 1..Len(s) : FoldRune(s[i]) = FoldRune(t[i])

\* strings.TrimSpace
RECURSIVE TrimLeft(_)
TrimLeft(s) ==
    IF s # <<>> /\ Head(s) = Space THEN TrimLeft(Tail(s)) ELSE s

RECURSIVE TrimRight(_)
TrimRight(s) ==
    IF s # <<>> /\ s[Len(s)] = Space
    THEN TrimRight(SubSeq(s, 1, Len(s) - 1))
    ELSE s

TrimSpace(s) == TrimRight(TrimLeft(s))

\* strings.Split(s, ","): n separators give n+1 pieces, "" gives [""]
RECURSIVE SplitAcc(_, _, _)
SplitAcc(s, cur, acc) ==
    IF s = <<>> THEN Append(acc, cur)
    ELSE IF Head(s) = Comma THEN SplitAcc(Tail(s), <<>>, Append(acc, cur))
    ELSE SplitAcc(Tail(s), Append(cur, Head(s)), acc)

Split(s) == SplitAcc(s, <<>>, <<>>)

\* ------------------------------------------------------------------------
\* Documents and their persisted (JSON) form
\* ------------------------------------------------------------------------

\* models.UserData: Cities []string, Units string
UserData(cities, units) == [Cities |-> cities, Units |-> units]

\* models.UserData{}, returned next to every load error
EmptyUserData == UserData(<<>>, "")

\* a default document with the other unit system
DefaultDataImperial == [Cities |-> <<>>, Units |-> "imperial"]

\* defaultData of createDefaultUserData
DefaultData == UserData(<<>>, "metric")

\* encoding/json writes a string coerced to valid UTF-8: every invalid byte
\* becomes U+FFFD; every other character is written (escaped or not) so that
\* decoding gives it back
EncodeString(s) ==
    [i \in 1..Len(s) |-> IF s[i] = BadByte THEN ReplChar ELSE s[i]]

\* json.NewEncoder(file).Encode(userData): the JSON object with the keys of
\* the struct tags, {"cities":[...],"units":"..."}
Encode(d) ==
    [cities |-> [i \in 1..Len(d.Cities) |-> EncodeString(d.Cities[i])],
     units  |-> d.Units]

\* json.NewDecoder(file).Decode(&userData) of one JSON object
Decode(j) == UserData(j.cities, j.units)

\* the file at FilePath: absent, or present with its content, which is empty
\* (just truncated by os.Create) or one encoded document.  Bytes that a longer
\* earlier write left behind the document are never read by Decode, which
\* stops after the first JSON value, and are not modelled.
AbsentFile == [exists |-> FALSE, content |-> <<>>]

TruncatedFile == [exists |-> TRUE, content |-> <<>>]

FileWith(d) == [exists |-> TRUE, content |-> <<Encode(d)>>]

\* ------------------------------------------------------------------------
\* The mutation loops of the weather service
\* ------------------------------------------------------------------------

\* the membership scan comparing with == instead of strings.EqualFold
ExistsExact(cities, newCity) ==
    \E i \in 1..Len(cities) : cities[i] = newCity

\* a membership scan that finds nothing
ExistsNever(cities, newCity) == FALSE

\* part_007:247-254, the membership scan
Exists(cities, newCity) ==
    \E i \in 1..Len(cities) : EqualFold(cities[i], newCity)

\* part_007:241-259, the loop of AddCity over the split pieces
RECURSIVE AddLoop(_, _)
AddLoop(cities, pieces) ==
    IF pieces = <<>> THEN cities
    ELSE LET newCity == TrimSpace(Head(pieces)) IN
         IF newCity = <<>> THEN AddLoop(cities, Tail(pieces))
         ELSE IF Exists(cities, newCity) THEN AddLoop(cities, Tail(pieces))
         ELSE AddLoop(Append(cities, newCity), Tail(pieces))

AddCities(cities, city) == AddLoop(cities, Split(city))

\* a scan that cuts out the first entry without comparing it
RemoveFirstUnchecked(cities, cityToRemove) ==
    IF cities = <<>> THEN <<>> ELSE Tail(cities)

\* part_007:297-304, the scan of DeleteCity: the first case-insensitive match
\* is cut out and the scan stops; the other entries keep their order
RECURSIVE RemoveFirst(_, _)
RemoveFirst(cities, cityToRemove) ==
    IF cities = <<>> THEN <<>>
    ELSE IF EqualFold(Head(cities), cityToRemove) THEN Tail(cities)
    ELSE <<Head(cities)>> \o RemoveFirst(Tail(cities), cityToRemove)

\* part_007:289-309, the loop of DeleteCity over the split pieces
RECURSIVE DeleteLoop(_, _)
DeleteLoop(cities, pieces) ==
    IF pieces = <<>> THEN cities
    ELSE LET cityToRemove == TrimSpace(Head(pieces)) IN
         IF cityToRemove = <<>> THEN DeleteLoop(cities, Tail(pieces))
         ELSE DeleteLoop(RemoveFirst(cities, cityToRemove), Tail(pieces))

\* a DeleteCity that looks at the first piece only
DeleteCitiesFirstPieceOnly(cities, city) ==
    DeleteLoop(cities, <<Head(Split(city))>>)

DeleteCities(cities, city) == DeleteLoop(cities, Split(city))

\* a unit check that ignores case
ValidUnitAnyCase(u) == u \in {"metric", "imperial", "Metric", "IMPERIAL"}

\* part_007:337, the unit check of UpdateUserUnits
ValidUnit(u) == u = "metric" \/ u = "imperial"

\* ------------------------------------------------------------------------
\* A request in progress
\* ------------------------------------------------------------------------

Workers == {"w1", "w2"}

\* the request body of PUT /user/units: a JSON object with a units member, or
\* something json.Decode rejects
Body(u) == [ok |-> TRUE, units |-> u]

MalformedBody == [ok |-> FALSE, units |-> ""]

\* the calls of the operating system inside the storage service that can
\* fail for a reason of the environment (permissions, a full disk):
\* storage.go:36 (an error other than "not exist"), 93, 105, 66, 78, and the
\* deferred file.Close() of storage.go:50, 100, 73
Faults ==
    {"open", "create_default", "write_default", "save_create", "save_write",
     "load_close", "default_close", "save_close"}

\* a worker that serves no request.  calls lists the storage methods the
\* request has called so far, fault is the call that fails during the
\* request, logged lists the errors the storage service has written to its
\* log and has not returned
IdleProc ==
    [pc |-> "idle", op |-> "none", city |-> <<>>, body |-> MalformedBody,
     userData |-> EmptyUserData, loaded |-> <<>>, saved |-> <<>>,
     err |-> "nil", resp |-> <<>>, calls |-> <<>>, fault |-> "none",
     logged |-> <<>>]

\* fmt.Errorf("<msg>: %w", err)
Wrap(msg, e) == msg \o ": " \o e

\* return from the handler: err is the returned error, resp what was encoded
\* into the http.ResponseWriter (nothing on an error path)
Return(p, e, r) == [p EXCEPT !.pc = "done", !.err = e, !.resp = r]

\* part_007:211-212, GetUserData up to its call of LoadUserData
EnterGetUserData == [IdleProc EXCEPT !.pc = "open", !.op = "GetUserData"]

\* AddCity without the check of the city parameter
EnterAddCityUnchecked(city) ==
    [IdleProc EXCEPT !.op = "AddCity", !.city = city, !.pc = "open"]

\* an AddCity that also refuses a city parameter without a name in it
EnterAddCityRejectsBlank(city) ==
    LET p == [IdleProc EXCEPT !.op = "AddCity", !.city = city] IN
    IF \A i \in 1..Len(city) : city[i] \in {Comma, Space}
    THEN Return(p, "ErrCityRequired", <<>>)
    ELSE [p EXCEPT !.pc = "open"]

\* part_007:229-234, AddCity up to its call of LoadUserData
EnterAddCity(city) ==
    LET p == [IdleProc EXCEPT !.op = "AddCity", !.city = city] IN
    IF city = <<>> THEN Return(p, "ErrCityRequired", <<>>)
    ELSE [p EXCEPT !.pc = "open"]

\* part_007:277-282, DeleteCity up to its call of LoadUserData
EnterDeleteCity(city) ==
    LET p == [IdleProc EXCEPT !.op = "DeleteCity", !.city = city] IN
    IF city = <<>> THEN Return(p, "ErrCityRequired", <<>>)
    ELSE [p EXCEPT !.pc = "open"]

\* UpdateUserUnits without the check of the unit
EnterUpdateUserUnitsUnchecked(body) ==
    LET p == [IdleProc EXCEPT !.op = "UpdateUserUnits", !.body = body] IN
    IF ~body.ok THEN Return(p, "invalid request body", <<>>)
    ELSE [p EXCEPT !.pc = "open"]

\* part_007:327-342, UpdateUserUnits up to its call of LoadUserData
EnterUpdateUserUnits(body) ==
    LET p == [IdleProc EXCEPT !.op = "UpdateUserUnits", !.body = body] IN
    IF ~body.ok THEN Return(p, "invalid request body", <<>>)
    ELSE IF ~ValidUnit(body.units) THEN Return(p, "ErrInvalidUnit", <<>>)
    ELSE [p EXCEPT !.pc = "open"]

\* a GetUserData that answers with the default document
LoadedGetAnswersDefault(p, d) ==
    LET q == [p EXCEPT !.loaded = <<d>>] IN
    CASE p.op = "GetUserData" ->
             Return([q EXCEPT !.userData = DefaultData], "nil", <<Encode(DefaultData)>>)
      [] p.op = "AddCity" ->
             [q EXCEPT !.pc = "save_create",
                       !.userData = [d EXCEPT !.Cities = AddCities(d.Cities, p.city)]]
      [] p.op = "DeleteCity" ->
             [q EXCEPT !.pc = "save_create",
                       !.userData = [d EXCEPT !.Cities = DeleteCities(d.Cities, p.city)]]
      [] p.op = "UpdateUserUnits" ->
             [q EXCEPT !.pc = "save_create",
                       !.userData = [d EXCEPT !.Units = p.body.units]]

\* what each handler does with the document LoadUserData returned, up to its
\* call of SaveUserData (GetUserData: up to its return)
Loaded(p, d) ==
    LET q == [p EXCEPT !.loaded = <<d>>] IN
    CASE p.op = "GetUserData" ->
             \* part_007:218-225
             Return([q EXCEPT !.userData = d], "nil", <<Encode(d)>>)
      [] p.op = "AddCity" ->
             \* part_007:240-261
             [q EXCEPT !.pc = "save_create",
                       !.userData = [d EXCEPT !.Cities = AddCities(d.Cities, p.city)]]
      [] p.op = "DeleteCity" ->
             \* part_007:288-311
             [q EXCEPT !.pc = "save_create",
                       !.userData = [d EXCEPT !.Cities = DeleteCities(d.Cities, p.city)]]
      [] p.op = "UpdateUserUnits" ->
             \* part_007:348-349
             [q EXCEPT !.pc = "save_create",
                       !.userData = [d EXCEPT !.Units = p.body.units]]

\* part_007:213-216, 235-238, 283-286, 343-346: LoadUserData returned an error
LoadFailed(p, e) == Return(p, Wrap("failed to load user data", e), <<>>)

\* part_007:263-266, 311-314, 349-352: SaveUserData returned an error
SaveFailed(p, e) == Return(p, Wrap("failed to save user data", e), <<>>)

\* a response of UpdateUserUnits that reports the unit that was loaded
SavedReportsLoadedUnits(p) ==
    LET q == [p EXCEPT !.saved = <<p.userData>>] IN
    CASE p.op = "AddCity" ->
             Return(q, "nil", <<Encode(p.userData)>>)
      [] p.op = "DeleteCity" ->
             Return(q, "nil", <<Encode(p.userData).cities>>)
      [] p.op = "UpdateUserUnits" ->
             Return(q, "nil", <<[units |-> p.loaded[1].Units]>>)

\* what each handler writes to the response after a successful save
Saved(p) ==
    LET q == [p EXCEPT !.saved = <<p.userData>>] IN
    CASE p.op = "AddCity" ->
             \* part_007:266-273, the whole document
             Return(q, "nil", <<Encode(p.userData)>>)
      [] p.op = "DeleteCity" ->
             \* part_007:316-323, the city list only
             Return(q, "nil", <<Encode(p.userData).cities>>)
      [] p.op = "UpdateUserUnits" ->
             \* part_007:354-361, {"units": ...}
             Return(q, "nil", <<[units |-> p.userData.Units]>>)

\* ------------------------------------------------------------------------
\* The steps of the storage service; each takes the file and the request
\* and gives the file and the request after the step
\* ------------------------------------------------------------------------

After(f, p) == [file |-> f, proc |-> p]

\* storage.go:49-53, 72-76, 99-103: the deferred file.Close() runs when the
\* function returns, with its result or with an error; an error of Close is
\* logged and the function returns what it was about to return
CloseFile(p, fault) ==
    IF p.fault = fault
    THEN [p EXCEPT !.logged = Append(p.logged, "Error closing file")]
    ELSE p

\* storage.go:36-46, os.Open and the branch on os.IsNotExist
LoadOpen(f, p) ==
    LET q == [p EXCEPT !.calls = Append(p.calls, "LoadUserData")] IN
    IF p.fault = "open" THEN After(f, LoadFailed(q, "failed to open file"))
    ELSE IF f.exists THEN After(f, [q EXCEPT !.pc = "decode"])
    ELSE After(f, [q EXCEPT !.pc = "create_default"])

\* a load that takes a file it cannot decode for an absent one and writes
\* the default document over it
LoadDecodeRecreates(f, p) ==
    IF f.content = <<>>
    THEN After(f, [p EXCEPT !.pc = "create_default"])
    ELSE After(f, Loaded(p, Decode(f.content[1])))

\* storage.go:55-61, Decode reads the file as it is now: an empty file is an
\* EOF error.  A document is shorter than the read buffer of the decoder, so
\* one read returns all of it.
LoadDecode(f, p) ==
    IF f.content = <<>>
    THEN After(f, CloseFile(LoadFailed(p, "failed to decode file"), "load_close"))
    ELSE After(f, CloseFile(Loaded(p, Decode(f.content[1])), "load_close"))

\* storage.go:93-97, os.Create creates the file or truncates it
DefaultCreate(f, p) ==
    IF p.fault = "create_default"
    THEN After(f, LoadFailed(p, "failed to create file"))
    ELSE After(TruncatedFile, [p EXCEPT !.pc = "write_default"])

\* storage.go:105-110, the default document is written and returned; a
\* write that fails leaves no complete document in the file
DefaultEncode(f, p) ==
    IF p.fault = "write_default"
    THEN After(TruncatedFile, LoadFailed(p, "failed to write default data"))
    ELSE After(FileWith(DefaultData),
               CloseFile(Loaded(p, DefaultData), "default_close"))

\* a save that goes on after os.Create has failed
SaveCreateUnchecked(f, p) ==
    LET q == [p EXCEPT !.calls = Append(p.calls, "SaveUserData")] IN
    After(TruncatedFile, [q EXCEPT !.pc = "save_encode"])

\* storage.go:66-70, os.Create creates the file or truncates it
SaveCreate(f, p) ==
    LET q == [p EXCEPT !.calls = Append(p.calls, "SaveUserData")] IN
    IF p.fault = "save_create"
    THEN After(f, SaveFailed(q, "failed to create file"))
    ELSE After(TruncatedFile, [q EXCEPT !.pc = "save_encode"])

\* a save that leaves a file alone that already has content
SaveEncodeIfEmpty(f, p) ==
    IF f.content # <<>> THEN After(f, Saved(p))
    ELSE After(FileWith(p.userData), Saved(p))

\* storage.go:78-83, the document is written at offset 0 of the file; a
\* write that fails leaves no complete document in the file
SaveEncode(f, p) ==
    IF p.fault = "save_write"
    THEN After(TruncatedFile, SaveFailed(p, "failed to save user data"))
    ELSE After(FileWith(p.userData), CloseFile(Saved(p), "save_close"))

\* one step of a request that is inside LoadUserData or SaveUserData
StepOf(f, p) ==
    CASE p.pc = "open"           -> LoadOpen(f, p)
      [] p.pc = "decode"         -> LoadDecode(f, p)
      [] p.pc = "create_default" -> DefaultCreate(f, p)
      [] p.pc = "write_default"  -> DefaultEncode(f, p)
      [] p.pc = "save_create"    -> SaveCreate(f, p)
      [] p.pc = "save_encode"    -> SaveEncode(f, p)

\* a request run from its entry to its return with no other request in between
RECURSIVE Run(_, _)
Run(f, p) ==
    IF p.pc = "done" THEN After(f, p)
    ELSE LET a == StepOf(f, p) IN Run(a.file, a.proc)

\* ------------------------------------------------------------------------
\* URLs.  A URL string is a sequence of pieces: runs of letters ("https",
\* "HTTPS", "http", "w"), the delimiters ":", "/" and "?", a "%" that no two
\* hexadecimal digits follow (Pct), and a control character (Ctl).  Two runs
\* of letters side by side read as one longer run.
\* ------------------------------------------------------------------------

Colon == ":"

Slash == "/"

Question == "?"

Pct == "%zz"

Ctl == "x7F"

Letters == {"https", "HTTPS", "http", "w"}

\* the m-th smallest member of a set of numbers
Nth(S, m) == CHOOSE x \in S : Cardinality({y \in S : y < x}) = m - 1

\* the first position of s from position from on that holds a member of set,
\* or Len(s) + 1
IndexFrom(s, from, set) ==
    LET hits == {i \in from..Len(s) : s[i] \in set} IN
    IF hits = {} THEN Len(s) + 1
    ELSE CHOOSE i \in hits : \A j \in hits : i <= j

\* the last position of s that holds c, or 0
LastIndex(s, c) ==
    LET hits == {i \in 1..Len(s) : s[i] = c} IN
    IF hits = {} THEN 0
    ELSE CHOOSE i \in hits : \A j \in hits : j <= i

\* strings.ToLower of a scheme
ToLower(s) == [i \in 1..Len(s) |-> IF s[i] = "HTTPS" THEN "https" ELSE s[i]]

\* net/url getScheme: the letters before the first ":" when only letters
\* come before it; a ":" in front is an error
GetScheme(rawURL) ==
    LET others == {i \in 1..Len(rawURL) : rawURL[i] \notin Letters}
        stop == IF others = {} THEN Len(rawURL) + 1 ELSE Nth(others, 1)
    IN
    IF stop > Len(rawURL) \/ rawURL[stop] # Colon
    THEN [err |-> FALSE, scheme |-> <<>>, rest |-> rawURL]
    ELSE IF stop = 1
    THEN [err |-> TRUE, scheme |-> <<>>, rest |-> <<>>]
    ELSE [err |-> FALSE, scheme |-> SubSeq(rawURL, 1, stop - 1),
          rest |-> SubSeq(rawURL, stop + 1, Len(rawURL))]

\* net/url parseHost: a port after the last ":" has to be empty or digits,
\* and the host must unescape
ParseHostFails(authority) ==
    \/ LastIndex(authority, Colon) \notin {0, Len(authority)}
    \/ \E i \in 1..Len(authority) : authority[i] = Pct

\* a URL that did not parse
ParseError ==
    [err |-> TRUE, Scheme |-> <<>>, Opaque |-> <<>>, Host |-> <<>>,
     Path |-> <<>>, ForceQuery |-> FALSE, RawQuery |-> <<>>]

\* net/url Parse without the fragment: control characters, the scheme, the
\* query, an opaque rest, the authority and the path, in this order
Parse(rawURL) ==
    IF \E i \in 1..Len(rawURL) : rawURL[i] = Ctl THEN ParseError
    ELSE
    LET g == GetScheme(rawURL) IN
    IF g.err THEN ParseError
    ELSE
    LET scheme == ToLower(g.scheme)
        q == IndexFrom(g.rest, 1, {Question})
        force == q = Len(g.rest) /\ q >= 1
        rest == SubSeq(g.rest, 1, q - 1)
        query == SubSeq(g.rest, q + 1, Len(g.rest))
        rooted == rest # <<>> /\ rest[1] = Slash
        double == Len(rest) >= 2 /\ rest[1] = Slash /\ rest[2] = Slash
        triple == double /\ Len(rest) >= 3 /\ rest[3] = Slash
        u == [err |-> FALSE, Scheme |-> scheme, Opaque |-> <<>>, Host |-> <<>>,
              Path |-> <<>>, ForceQuery |-> force, RawQuery |-> query]
    IN
    IF ~rooted /\ scheme # <<>> THEN [u EXCEPT !.Opaque = rest]
    ELSE IF ~rooted /\ IndexFrom(rest, 1, {Colon}) < IndexFrom(rest, 1, {Slash})
    THEN ParseError
    ELSE IF (scheme # <<>> \/ ~triple) /\ double
    THEN LET slash == IndexFrom(rest, 3, {Slash})
             authority == SubSeq(rest, 3, slash - 1)
             path == SubSeq(rest, slash, Len(rest))
         IN IF ParseHostFails(authority) THEN ParseError
            ELSE IF \E i \in 1..Len(path) : path[i] = Pct THEN ParseError
            ELSE [u EXCEPT !.Host = authority, !.Path = path]
    ELSE IF \E i \in 1..Len(rest) : rest[i] = Pct THEN ParseError
    ELSE [u EXCEPT !.Path = rest]

\* net/url URL.String of a URL with a scheme and a host
String(u) ==
    u.Scheme \o <<Colon, Slash, Slash>> \o u.Host \o u.Path \o
    (IF u.ForceQuery \/ u.RawQuery # <<>> THEN <<Question>> \o u.RawQuery ELSE <<>>)

\* a validation that accepts every scheme
validateURLAnyScheme(rawURL) ==
    LET parsedURL == Parse(rawURL) IN
    IF parsedURL.err \/ parsedURL.Host = <<>>
    THEN [err |-> "ErrInvalidURL", url |-> <<>>]
    ELSE [err |-> "nil", url |-> String(parsedURL)]

\* part_007:390-397
validateURL(rawURL) ==
    LET parsedURL == Parse(rawURL) IN
    IF parsedURL.err \/ parsedURL.Scheme # <<"https">> \/ parsedURL.Host = <<>>
    THEN [err |-> "ErrInvalidURL", url |-> <<>>]
    ELSE [err |-> "nil", url |-> String(parsedURL)]

\* ------------------------------------------------------------------------
\* The weather fetch: getWeatherData, getGeocode and doRequest
\* ------------------------------------------------------------------------

\* url.QueryEscape: letters stay, a space becomes "+", every other byte
\* becomes its %XX escape
QueryEscape(city) ==
    [i \in 1..Len(city) |->
        CASE city[i] = Space   -> "+"
          [] city[i] = Comma   -> "%2C"
          [] city[i] = BadByte -> "%FF"
          [] OTHER             -> city[i]]

\* the coordinates a geocode response can hold, as their JSON numbers
Coordinates == {"1.5", "-2.25", "3.1234567"}

\* the verb %f of fmt: six digits after the point, rounded
FormatFloat(x) ==
    CASE x = "0"         -> "0.000000"
      [] x = "1.5"       -> "1.500000"
      [] x = "-2.25"     -> "-2.250000"
      [] x = "3.1234567" -> "3.123457"

\* the arguments of Sprintf
StringArg(str) == [kind |-> "string", str |-> str, num |-> "1.5"]

FloatArg(num) == [kind |-> "float64", str |-> <<>>, num |-> num]

\* fmt.Sprintf over the pieces of a format: %s takes a string and %f a
\* float64 from the arguments in their order; a verb with an argument of the
\* other type or without an argument, and arguments left over, are written
\* out as the marks fmt has for them
RECURSIVE Sprintf(_, _)
Sprintf(format, args) ==
    IF format = <<>>
    THEN IF args = <<>> THEN <<>> ELSE <<"%!(EXTRA)">>
    ELSE IF Head(format) \notin {"%s", "%f"}
    THEN <<Head(format)>> \o Sprintf(Tail(format), args)
    ELSE IF args = <<>>
    THEN <<"%!(MISSING)">> \o Sprintf(Tail(format), args)
    ELSE LET a == Head(args) IN
         ( IF Head(format) = "%s" /\ a.kind = "string" THEN a.str
           ELSE IF Head(format) = "%f" /\ a.kind = "float64" THEN <<FormatFloat(a.num)>>
           ELSE <<"%!(BADVERB)">> ) \o Sprintf(Tail(format), Tail(args))

\* the {city} route parameter of the weather routes
FetchCities == {<<>>, <<"a">>, <<"a", Space, "A">>, <<BadByte, Comma>>}

\* the addresses of the three upstream services: format strings with a %s
\* for the escaped city, and with two %f for latitude and longitude
GeocodeAPIURLs ==
    {<<"https", Colon, Slash, Slash, "w", Slash, "w", Question, "w", "%s", "w">>,
     <<"http", Colon, Slash, Slash, "w", Slash, "w", Question, "w", "%s", "w">>}

CurrentWeatherAPIURLs ==
    {<<"https", Colon, Slash, Slash, "w", Slash, "w", Question, "%f", "%f", "current">>,
     <<"https", Colon, Slash, "w", Question, "%f", "%f", "current">>}

ForecastWeatherAPIURLs ==
    {<<"https", Colon, Slash, Slash, "w", Slash, "w", Question, "%f", "%f", "daily">>}

\* every address the fetches can give to doRequest: a geocode address with
\* an escaped city in it, or a weather address with two coordinates in it
FetchURLs ==
    {Sprintf(u, <<StringArg(QueryEscape(c))>>) :
        u \in GeocodeAPIURLs, c \in FetchCities}
    \cup
    {Sprintf(u, <<FloatArg(lat), FloatArg(lon)>>) :
        u \in CurrentWeatherAPIURLs \cup ForecastWeatherAPIURLs,
        lat \in Coordinates \cup {"0"}, lon \in Coordinates \cup {"0"}}

\* validateURL of each of these addresses
validatedURLs == [rawURL \in FetchURLs |-> validateURL(rawURL)]

\* what an upstream service answers: a body that is a JSON document of the
\* expected shape or not, the results of a geocode document, the data of a
\* weather document; arrived tells whether the body had been received in
\* full when the context of the request was cancelled (part_007:372)
Result(lat, lon) == [Latitude |-> lat, Longitude |-> lon]

Response(json, results, data, arrived) ==
    [json |-> json, results |-> results, data |-> data, arrived |-> arrived]

\* a weather fetch that has not begun
IdleFetch ==
    [pc |-> "idle", op |-> "none", city |-> <<>>, url |-> <<>>, rawURL |-> <<>>,
     requests |-> <<>>, responses |-> <<>>, closed |-> <<>>,
     deadline |-> "none", lat |-> "1.5", lon |-> "1.5",
     err |-> <<>>, resp |-> <<>>]

\* part_007:175-177, 196-198: the error of getWeatherData, wrapped
FetchFailed(f, chain) ==
    [f EXCEPT !.pc = "done", !.resp = <<>>,
              !.err = <<IF f.op = "GetCurrentWeatherByCity"
                        THEN "failed to get weather data for city"
                        ELSE "failed to get forecast data for city">> \o chain]

\* getWeatherData without the check of the city
EnterGetWeatherDataUnchecked(op, city, url, GeocodeAPIURL) ==
    [IdleFetch EXCEPT !.op = op, !.city = city, !.url = url,
                      !.pc = "geocode_request",
                      !.rawURL = Sprintf(GeocodeAPIURL, <<StringArg(QueryEscape(city))>>)]

\* part_007:169-174, 190-195, 425-430 and 400-401: a handler up to the call
\* of doRequest in getGeocode, with geoURL as the next address to call
EnterGetWeatherData(op, city, url, GeocodeAPIURL) ==
    LET f == [IdleFetch EXCEPT !.op = op, !.city = city, !.url = url] IN
    IF city = <<>> THEN FetchFailed(f, <<"ErrCityRequired">>)
    ELSE [f EXCEPT !.pc = "geocode_request",
                   !.rawURL = Sprintf(GeocodeAPIURL, <<StringArg(QueryEscape(city))>>)]

\* the wrapping of an error of doRequest by its caller: part_007:404-407 and
\* 431-433 for the geocode call, 438-441 for the weather call
CallerChain(to) ==
    IF to = "geocode" THEN <<"failed to get geocode", "failed to get geocode">>
    ELSE <<"failed to get weather data">>

\* a doRequest that sets no deadline
SendRequestWithoutDeadline(f, to) ==
    LET validatedURL == validatedURLs[f.rawURL] IN
    IF validatedURL.err # "nil"
    THEN FetchFailed(f, CallerChain(to) \o <<"failed to validate URL", validatedURL.err>>)
    ELSE [f EXCEPT !.pc = to \o "_wait",
                   !.deadline = "none",
                   !.requests = Append(f.requests, [method |-> "GET", to |-> to, url |-> validatedURL.url])]

\* a doRequest that sends the request to the address as it was given when
\* validateURL has rejected it
SendRequestUnvalidated(f, to) ==
    LET validatedURL == validatedURLs[f.rawURL] IN
    [f EXCEPT !.pc = to \o "_wait",
              !.deadline = "armed",
              !.requests = Append(f.requests,
                  [method |-> "GET", to |-> to,
                   url |-> IF validatedURL.err # "nil" THEN f.rawURL
                           ELSE validatedURL.url])]

\* part_007:365-380, doRequest up to http.DefaultClient.Do: the URL is
\* validated, the context gets its deadline and the request goes out; both
\* callers pass http.MethodGet (part_007:403, 437)
SendRequest(f, to) ==
    LET validatedURL == validatedURLs[f.rawURL] IN
    IF validatedURL.err # "nil"
    THEN FetchFailed(f, CallerChain(to) \o <<"failed to validate URL", validatedURL.err>>)
    ELSE [f EXCEPT !.pc = to \o "_wait",
                   !.deadline = "armed",
                   !.requests = Append(f.requests, [method |-> "GET", to |-> to, url |-> validatedURL.url])]

\* the call that is waiting for its answer
Waiting(f) == IF f.pc = "geocode_wait" THEN "geocode" ELSE "weather"

\* a doRequest that returns the response without cancelling its context
RespondedKeepsContext(f, res) ==
    [f EXCEPT !.pc = Waiting(f) \o "_decode",
              !.responses = Append(f.responses, res)]

\* part_007:380-386 and 372: Do returns the response and the deferred
\* cancel ends the context
Responded(f, res) ==
    [f EXCEPT !.pc = Waiting(f) \o "_decode",
              !.deadline = "cancelled",
              !.responses = Append(f.responses, res)]

\* a doRequest that sends the request once more after an error of the
\* transport
TransportFailedRetries(f) ==
    IF Len(f.requests) < 3
    THEN [f EXCEPT !.pc = Waiting(f) \o "_request", !.deadline = "cancelled"]
    ELSE FetchFailed([f EXCEPT !.deadline = "cancelled"],
                     CallerChain(Waiting(f)) \o
                         <<"failed to perform HTTP request", "transport error">>)

\* part_007:380-384: Do returns an error of the transport
TransportFailed(f) ==
    FetchFailed([f EXCEPT !.deadline = "cancelled"],
                CallerChain(Waiting(f)) \o
                    <<"failed to perform HTTP request", "transport error">>)

\* part_007:371, 380-384: the deadline of the context passes and Do returns
\* its error
DeadlineExceeded(f) ==
    FetchFailed([f EXCEPT !.deadline = "expired"],
                CallerChain(Waiting(f)) \o
                    <<"failed to perform HTTP request", "context deadline exceeded">>)

\* json.Decoder.Decode of a response body fails: the body is not a document
\* of the expected shape, or its rest cannot be read any more
DecodeFails(res) == ~res.json \/ ~res.arrived

\* a getGeocode that gives the coordinates 0, 0 when there are no results
DecodedGeocodeZeroOnEmpty(f) ==
    LET res == f.responses[Len(f.responses)]
        g == [f EXCEPT !.closed = Append(f.closed, "geocode")]
    IN IF DecodeFails(res) \/ res.results = <<>>
       THEN [g EXCEPT !.pc = "weather_request",
                      !.rawURL = Sprintf(f.url, <<FloatArg("0"), FloatArg("0")>>)]
       ELSE [g EXCEPT !.pc = "weather_request",
                      !.lat = res.results[1].Latitude,
                      !.lon = res.results[1].Longitude,
                      !.rawURL = Sprintf(f.url, <<FloatArg(res.results[1].Latitude),
                                                  FloatArg(res.results[1].Longitude)>>)]

\* a getGeocode that gives the coordinates of the first result the other
\* way round
DecodedGeocodeLonLat(f) ==
    LET res == f.responses[Len(f.responses)]
        g == [f EXCEPT !.closed = Append(f.closed, "geocode")]
    IN IF DecodeFails(res) \/ res.results = <<>>
       THEN FetchFailed(g, <<"failed to get geocode", "ErrNoResultsForCity">>)
       ELSE [g EXCEPT !.pc = "weather_request",
                      !.lat = res.results[1].Longitude,
                      !.lon = res.results[1].Latitude,
                      !.rawURL = Sprintf(f.url, <<FloatArg(res.results[1].Longitude),
                                                  FloatArg(res.results[1].Latitude)>>)]

\* part_007:409-421 and 430-435: getGeocode from the response on, and
\* getWeatherData up to its call of doRequest, with weatherURL as the next
\* address to call; the body is closed when getGeocode returns
DecodedGeocode(f) ==
    LET res == f.responses[Len(f.responses)]
        g == [f EXCEPT !.closed = Append(f.closed, "geocode")]
    IN IF DecodeFails(res) \/ res.results = <<>>
       THEN FetchFailed(g, <<"failed to get geocode", "ErrNoResultsForCity">>)
       ELSE [g EXCEPT !.pc = "weather_request",
                      !.lat = res.results[1].Latitude,
                      !.lon = res.results[1].Longitude,
                      !.rawURL = Sprintf(f.url, <<FloatArg(res.results[1].Latitude),
                                                  FloatArg(res.results[1].Longitude)>>)]

\* a getWeatherData that closes the body only after a successful decode
DecodedWeatherLeaksOnError(f) ==
    LET res == f.responses[Len(f.responses)]
        g == [f EXCEPT !.closed = Append(f.closed, "weather")]
    IN IF DecodeFails(res)
       THEN FetchFailed(f, <<"failed to decode weather data", "decode error">>)
       ELSE [g EXCEPT !.pc = "done", !.resp = <<res.data>>]

\* part_007:443-454 and 179-186, 200-207: getWeatherData from the response
\* on, and the handler's answer; the body is closed when getWeatherData
\* returns
DecodedWeather(f) ==
    LET res == f.responses[Len(f.responses)]
        g == [f EXCEPT !.closed = Append(f.closed, "weather")]
    IN IF DecodeFails(res)
       THEN FetchFailed(g, <<"failed to decode weather data", "decode error">>)
       ELSE [g EXCEPT !.pc = "done", !.resp = <<res.data>>]

\* ------------------------------------------------------------------------
\* State
\* ------------------------------------------------------------------------

VARIABLES
    file,     \* the file at FilePath
    proc,     \* per worker: the request it serves and where it stands in it
    reqs,     \* the requests started so far
    before,   \* the file when the last isolated call was entered
    writer,   \* who wrote the present content of the file, and through what
    validation,  \* a string given to validateURL, and what validateURL returned
    service,  \* the addresses the weather service was constructed with
    fetch     \* the weather fetch in progress

vars == <<file, proc, reqs, before, writer, validation, service, fetch>>

NoWriter == [by |-> "none", how |-> "none"]

\* no string has been given to validateURL
NoValidation == [rawURL |-> <<>>, returned |-> <<>>]

\* part_007:146-156, NewWeatherService
Services ==
    [GeocodeAPIURL : GeocodeAPIURLs,
     CurrentWeatherAPIURL : CurrentWeatherAPIURLs,
     ForecastWeatherAPIURL : ForecastWeatherAPIURLs]

\* the service with the three https addresses
PlainService ==
    [GeocodeAPIURL |->
        <<"https", Colon, Slash, Slash, "w", Slash, "w", Question, "w", "%s", "w">>,
     CurrentWeatherAPIURL |->
        <<"https", Colon, Slash, Slash, "w", Slash, "w", Question, "%f", "%f", "current">>,
     ForecastWeatherAPIURL |->
        <<"https", Colon, Slash, Slash, "w", Slash, "w", Question, "%f", "%f", "daily">>]

\* ------------------------------------------------------------------------
\* Inputs
\* ------------------------------------------------------------------------

\* a city parameter longer than MaxRawLen: two candidates with a comma and a
\* space between them, of which the first can match a stored name but for
\* case and the second is another name
ExampleCityInputs == {<<"A", Comma, Space, "a", "a">>}

\* the {city} route parameter
CityInputs == StringsUpTo(InputChars, MaxRawLen) \cup ExampleCityInputs

\* the units member of the request body
UnitInputs == {"metric", "imperial", "Metric", "IMPERIAL", "", " metric", "kelvin"}

Bodies == {Body(u) : u \in UnitInputs} \cup {MalformedBody}

\* the inputs of the concurrent runs
ConcCityInputs == {<<"a">>, <<"a", "a">>, <<"a", Comma, "A">>}

ConcBodies == {Body("imperial"), Body("Metric")}

\* city names as a document holds them (trimmed, not empty, without comma,
\* valid UTF-8): two names in two cases each, a name with a space inside, and
\* the name that AddCity of an invalid byte leaves in the file
StoredCities ==
    {<<"a">>, <<"A">>, <<"a", "a">>, <<"A", "a">>, <<"a", Space, "A">>,
     <<ReplChar>>}

NoDuplicates(cities) ==
    \A i, j \in 1..Len(cities) : i # j => ~EqualFold(cities[i], cities[j])

\* the city lists the mutators can have left in the file
StoredLists ==
    {l \in StringsUpTo(StoredCities, MaxCities) : NoDuplicates(l)}

\* the files an isolated call can find: none, or a document that earlier
\* calls have saved
InitFiles ==
    {AbsentFile} \cup
    {FileWith(UserData(l, u)) : l \in StoredLists, u \in {"metric", "imperial"}}

\* ------------------------------------------------------------------------
\* Isolated calls: one request served from entry to return
\* ------------------------------------------------------------------------

Init ==
    /\ service = PlainService
    /\ fetch = IdleFetch
    /\ validation = NoValidation
    /\ file \in InitFiles
    /\ proc = [w \in Workers |-> IdleProc]
    /\ reqs = 0
    /\ before = file
    /\ writer = NoWriter

\* the state after a call that ended as a
Called(a) ==
    /\ file' = a.file
    /\ proc' = [proc EXCEPT !["w1"] = a.proc]
    /\ before' = file
    /\ UNCHANGED <<reqs, writer, validation, service, fetch>>

GetUserData ==
    /\ proc["w1"].pc = "idle"
    /\ Called(Run(file, EnterGetUserData))

AddCity ==
    /\ proc["w1"].pc = "idle"
    /\ \E city \in CityInputs : Called(Run(file, EnterAddCity(city)))

DeleteCity ==
    /\ proc["w1"].pc = "idle"
    /\ \E city \in CityInputs : Called(Run(file, EnterDeleteCity(city)))

UpdateUserUnits ==
    /\ proc["w1"].pc = "idle"
    /\ \E body \in Bodies : Called(Run(file, EnterUpdateUserUnits(body)))

Next == GetUserData \/ AddCity \/ DeleteCity \/ UpdateUserUnits

Spec == Init /\ [][Next]_vars

\* ------------------------------------------------------------------------
\* Concurrent requests: every access to the file is a step of its own
\* ------------------------------------------------------------------------

InitConc ==
    /\ service = PlainService
    /\ fetch = IdleFetch
    /\ validation = NoValidation
    /\ file = AbsentFile
    /\ proc = [w \in Workers |-> IdleProc]
    /\ reqs = 0
    /\ before = AbsentFile
    /\ writer = NoWriter

\* worker w is free to take a request
Free(w) == proc[w].pc \in {"idle", "done"} /\ reqs < MaxReqs

\* the state after worker w has entered a handler as p
Begun(w, p) ==
    /\ proc' = [proc EXCEPT ![w] = p]
    /\ reqs' = reqs + 1
    /\ UNCHANGED <<file, before, writer, validation, service, fetch>>

\* the state after a step of worker w that ended as a, with wr the writer of
\* the content of the file
Stepped(w, a, wr) ==
    /\ file' = a.file
    /\ proc' = [proc EXCEPT ![w] = a.proc]
    /\ writer' = wr
    /\ UNCHANGED <<reqs, before, validation, service, fetch>>

BeginGetUserData(w) ==
    /\ Free(w)
    /\ Begun(w, EnterGetUserData)

BeginAddCity(w) ==
    /\ Free(w)
    /\ \E city \in ConcCityInputs : Begun(w, EnterAddCity(city))

BeginDeleteCity(w) ==
    /\ Free(w)
    /\ \E city \in ConcCityInputs : Begun(w, EnterDeleteCity(city))

BeginUpdateUserUnits(w) ==
    /\ Free(w)
    /\ \E body \in ConcBodies : Begun(w, EnterUpdateUserUnits(body))

Open(w) ==
    /\ proc[w].pc = "open"
    /\ Stepped(w, LoadOpen(file, proc[w]), writer)

DecodeFile(w) ==
    /\ proc[w].pc = "decode"
    /\ Stepped(w, LoadDecode(file, proc[w]), writer)

CreateDefaultFile(w) ==
    /\ proc[w].pc = "create_default"
    /\ Stepped(w, DefaultCreate(file, proc[w]), writer)

WriteDefault(w) ==
    /\ proc[w].pc = "write_default"
    /\ Stepped(w, DefaultEncode(file, proc[w]), [by |-> w, how |-> "default"])

CreateFile(w) ==
    /\ proc[w].pc = "save_create"
    /\ Stepped(w, SaveCreate(file, proc[w]), writer)

WriteFile(w) ==
    /\ proc[w].pc = "save_encode"
    /\ Stepped(w, SaveEncode(file, proc[w]), [by |-> w, how |-> "save"])

NextConc ==
    \E w \in Workers :
        \/ BeginGetUserData(w)
        \/ BeginAddCity(w)
        \/ BeginDeleteCity(w)
        \/ BeginUpdateUserUnits(w)
        \/ Open(w)
        \/ DecodeFile(w)
        \/ CreateDefaultFile(w)
        \/ WriteDefault(w)
        \/ CreateFile(w)
        \/ WriteFile(w)

SpecConc == InitConc /\ [][NextConc]_vars

\* ------------------------------------------------------------------------
\* Isolated calls on storage that can fail: one request served from entry to
\* return, during which one call of the operating system may fail
\* ------------------------------------------------------------------------

\* the inputs of the calls on failing storage
FaultCityInputs == {<<"a">>, <<"A", Comma, "a", "a">>, <<Comma>>}

FaultBodies == {Body("imperial"), Body("kelvin"), MalformedBody}

\* the files such a call can find: those of InitFiles and the file a failed
\* write has left
FaultInitFiles == InitFiles \cup {TruncatedFile}

\* the request p, during which the call named by fault fails
WithFault(p, fault) == IF p.pc = "done" THEN p ELSE [p EXCEPT !.fault = fault]

InitFault ==
    /\ service = PlainService
    /\ fetch = IdleFetch
    /\ validation = NoValidation
    /\ file \in FaultInitFiles
    /\ proc = [w \in Workers |-> IdleProc]
    /\ reqs = 0
    /\ before = file
    /\ writer = NoWriter

GetUserDataOnFailingStorage ==
    /\ proc["w1"].pc = "idle"
    /\ \E fault \in Faults \cup {"none"} :
          Called(Run(file, WithFault(EnterGetUserData, fault)))

AddCityOnFailingStorage ==
    /\ proc["w1"].pc = "idle"
    /\ \E city \in FaultCityInputs, fault \in Faults \cup {"none"} :
          Called(Run(file, WithFault(EnterAddCity(city), fault)))

DeleteCityOnFailingStorage ==
    /\ proc["w1"].pc = "idle"
    /\ \E city \in FaultCityInputs, fault \in Faults \cup {"none"} :
          Called(Run(file, WithFault(EnterDeleteCity(city), fault)))

UpdateUserUnitsOnFailingStorage ==
    /\ proc["w1"].pc = "idle"
    /\ \E body \in FaultBodies, fault \in Faults \cup {"none"} :
          Called(Run(file, WithFault(EnterUpdateUserUnits(body), fault)))

NextFault ==
    \/ GetUserDataOnFailingStorage
    \/ AddCityOnFailingStorage
    \/ DeleteCityOnFailingStorage
    \/ UpdateUserUnitsOnFailingStorage

SpecFault == InitFault /\ [][NextFault]_vars

\* ------------------------------------------------------------------------
\* Repeated calls: a mutator is called, and then the same call with the
\* same input is made again, each call served from entry to return
\* ------------------------------------------------------------------------

\* the {city} route parameter of the calls that are made again
RepeatCityInputs ==
    StringsUpTo(InputChars, MaxRepeatLen) \cup ExampleCityInputs

\* the request p, entered once more
SameCall(p) ==
    CASE p.op = "AddCity"         -> EnterAddCity(p.city)
      [] p.op = "DeleteCity"      -> EnterDeleteCity(p.city)
      [] p.op = "UpdateUserUnits" -> EnterUpdateUserUnits(p.body)

AddCityFirst ==
    /\ proc["w1"].pc = "idle"
    /\ \E city \in RepeatCityInputs : Called(Run(file, EnterAddCity(city)))

DeleteCityFirst ==
    /\ proc["w1"].pc = "idle"
    /\ \E city \in RepeatCityInputs : Called(Run(file, EnterDeleteCity(city)))

UpdateUserUnitsFirst ==
    /\ proc["w1"].pc = "idle"
    /\ \E body \in Bodies : Called(Run(file, EnterUpdateUserUnits(body)))

\* the call that has returned is made again; reqs counts these calls and
\* before is the file as the call before left it
SameCallAgain ==
    /\ proc["w1"].pc = "done"
    /\ reqs < MaxRepeats
    /\ LET a == Run(file, SameCall(proc["w1"])) IN
          /\ file' = a.file
          /\ proc' = [proc EXCEPT !["w1"] = a.proc]
    /\ before' = file
    /\ reqs' = reqs + 1
    /\ UNCHANGED <<writer, validation, service, fetch>>

NextRepeat ==
    \/ AddCityFirst
    \/ DeleteCityFirst
    \/ UpdateUserUnitsFirst
    \/ SameCallAgain

SpecRepeat == Init /\ [][NextRepeat]_vars

\* ------------------------------------------------------------------------
\* validateURL on its own: a string is given to it and it returns
\* ------------------------------------------------------------------------

\* the pieces the strings are made of
URLChars == {"https", "HTTPS", "http", "w", Colon, Slash, Question, Pct, Ctl}

\* strings longer than MaxURLLen: of the shape of the configured addresses,
\* and with a flaw behind the host
ExampleURLs ==
    {<<"HTTPS", Colon, Slash, Slash, "w", Slash, "w", Question, "w">>,
     <<"https", Colon, Slash, Slash, "w", Slash, "w", Question, "w">>,
     <<"https", Colon, Slash, Slash, "w", Slash, Ctl>>,
     <<"https", Colon, Slash, Slash, "w", Question, Pct>>,
     <<"https", Colon, Slash, Slash, "w", Colon, Slash, "w">>,
     <<"https", Colon, Slash, Slash, "w", Colon, "w", Slash>>}

RawURLs == StringsUpTo(URLChars, MaxURLLen) \cup ExampleURLs

InitURL ==
    /\ service = PlainService
    /\ fetch = IdleFetch
    /\ validation \in {[rawURL |-> u, returned |-> <<>>] : u \in RawURLs}
    /\ file = AbsentFile
    /\ proc = [w \in Workers |-> IdleProc]
    /\ reqs = 0
    /\ before = AbsentFile
    /\ writer = NoWriter

ValidateURL ==
    /\ validation.returned = <<>>
    /\ validation' = [validation EXCEPT !.returned = <<validateURL(validation.rawURL)>>]
    /\ UNCHANGED <<file, proc, reqs, before, writer, service, fetch>>

NextURL == ValidateURL

SpecURL == InitURL /\ [][NextURL]_vars

\* ------------------------------------------------------------------------
\* Weather fetches: one request for the current weather or the forecast at
\* a time, each outbound call a step of its own, the upstream services free
\* to answer, to fail or to stay silent
\* ------------------------------------------------------------------------

\* what the upstream services can answer
GeocodeResults ==
    {<<>>,
     <<Result("1.5", "-2.25")>>,
     <<Result("3.1234567", "1.5"), Result("1.5", "-2.25")>>}

Responses ==
    {Response(TRUE, r, "weather", a) : r \in GeocodeResults, a \in BOOLEAN}
    \cup {Response(FALSE, <<>>, "", TRUE)}

InitFetch ==
    /\ service \in Services
    /\ fetch = IdleFetch
    /\ validation = NoValidation
    /\ file \in {AbsentFile, FileWith(DefaultData)}
    /\ proc = [w \in Workers |-> IdleProc]
    /\ reqs = 0
    /\ before = file
    /\ writer = NoWriter

\* a fetch that loads the user data when it has accepted its city
FetchedLoadsUserData(f) ==
    LET a == Run(file, EnterGetUserData) IN
    /\ fetch' = f
    /\ IF f.pc = "geocode_request"
       THEN file' = a.file /\ proc' = [proc EXCEPT !["w1"] = a.proc]
       ELSE UNCHANGED <<file, proc>>
    /\ UNCHANGED <<reqs, before, writer, validation, service>>

\* the state after a step of the fetch that ended as f
Fetched(f) ==
    /\ fetch' = f
    /\ UNCHANGED <<file, proc, reqs, before, writer, validation, service>>

GetCurrentWeatherByCity ==
    /\ fetch.pc \in {"idle", "done"}
    /\ \E city \in FetchCities :
          Fetched(EnterGetWeatherData("GetCurrentWeatherByCity", city,
                                      service.CurrentWeatherAPIURL,
                                      service.GeocodeAPIURL))

GetForecastByCity ==
    /\ fetch.pc \in {"idle", "done"}
    /\ \E city \in FetchCities :
          Fetched(EnterGetWeatherData("GetForecastByCity", city,
                                      service.ForecastWeatherAPIURL,
                                      service.GeocodeAPIURL))

GeocodeRequest ==
    /\ fetch.pc = "geocode_request"
    /\ Fetched(SendRequest(fetch, "geocode"))

WeatherRequest ==
    /\ fetch.pc = "weather_request"
    /\ Fetched(SendRequest(fetch, "weather"))

UpstreamResponds ==
    /\ fetch.pc \in {"geocode_wait", "weather_wait"}
    /\ \E res \in Responses : Fetched(Responded(fetch, res))

UpstreamFails ==
    /\ fetch.pc \in {"geocode_wait", "weather_wait"}
    /\ Fetched(TransportFailed(fetch))

DeadlineExpires ==
    /\ fetch.pc \in {"geocode_wait", "weather_wait"}
    /\ fetch.deadline = "armed"
    /\ Fetched(DeadlineExceeded(fetch))

GeocodeDecode ==
    /\ fetch.pc = "geocode_decode"
    /\ Fetched(DecodedGeocode(fetch))

WeatherDecode ==
    /\ fetch.pc = "weather_decode"
    /\ Fetched(DecodedWeather(fetch))

NextFetch ==
    \/ GetCurrentWeatherByCity
    \/ GetForecastByCity
    \/ GeocodeRequest
    \/ WeatherRequest
    \/ UpstreamResponds
    \/ UpstreamFails
    \/ DeadlineExpires
    \/ GeocodeDecode
    \/ WeatherDecode

SpecFetch == InitFetch /\ [][NextFetch]_vars

\* the steps of the service itself are taken when they can be, and a
\* deadline that is set passes; the upstream services owe nothing
FairFetch ==
    /\ WF_vars(GeocodeRequest)
    /\ WF_vars(WeatherRequest)
    /\ WF_vars(GeocodeDecode)
    /\ WF_vars(WeatherDecode)
    /\ WF_vars(DeadlineExpires)

SpecFetchLive == SpecFetch /\ FairFetch

\* ------------------------------------------------------------------------
\* Properties
\* ------------------------------------------------------------------------

\* the persisted city list, when the file holds a document
PersistedCities == file.content[1].cities

\* the request of the isolated call
call == proc["w1"]

\* two names are equal but for the case of their letters
SameButCase(s, t) ==
    /\ Len(s) = Len(t)
    /\ \A i \in 1..Len(s) :
          \/ s[i] = t[i]
          \/ {s[i], t[i]} = {"a", "A"}
          \/ {s[i], t[i]} = {BadByte, ReplChar}

\* C1: from absent storage and under every interleaving of the four
\* operations, the persisted city list never holds two entries that are equal
\* under case-insensitive comparison
C1_NoCaseInsensitiveDuplicates ==
    file.content # <<>> =>
        \A i, j \in 1..Len(PersistedCities) :
            i # j => ~SameButCase(PersistedCities[i], PersistedCities[j])

\* an AddCity that named one city twice in different case has saved its list
C1_Witness ==
    \E w \in Workers :
        /\ proc[w].pc = "done" /\ proc[w].op = "AddCity" /\ proc[w].err = "nil"
        /\ proc[w].city = <<"a", Comma, "A">>
        /\ writer = [by |-> w, how |-> "save"]
        /\ file.content # <<>>
        /\ \E i \in 1..Len(PersistedCities) : PersistedCities[i] = <<"a">>

\* C2: whenever the persisted document exists and is complete, its units are
\* exactly "metric" or "imperial"
C2_UnitsEnumerated ==
    file.content # <<>> => file.content[1].units \in {"metric", "imperial"}

\* a valid and an invalid UpdateUserUnits have both returned and the file holds
\* the valid value
C2_Witness ==
    \E w, v \in Workers :
        /\ proc[w].pc = "done" /\ proc[w].op = "UpdateUserUnits"
        /\ proc[w].body.units = "imperial" /\ proc[w].err = "nil"
        /\ proc[v].pc = "done" /\ proc[v].op = "UpdateUserUnits"
        /\ proc[v].body.units = "Metric"
        /\ file.content # <<>> /\ file.content[1].units = "imperial"

\* C3: a LoadUserData that found the file present decodes a complete
\* document, never an empty or partly written file
C3_LoadReadsCompleteDocument ==
    \A w \in Workers :
        /\ proc[w].pc = "decode" => file.content # <<>>
        /\ proc[w].err # "failed to load user data: failed to decode file"

\* C4: when two AddCity calls have loaded the same document, have each added
\* a new city and have both returned success, the file holds exactly the
\* document of the one that wrote last; the city of the other is not in it
C4_LastWriterWins ==
    \A w, v \in Workers :
        ( /\ w # v
          /\ proc[w].pc = "done" /\ proc[w].op = "AddCity" /\ proc[w].err = "nil"
          /\ proc[v].pc = "done" /\ proc[v].op = "AddCity" /\ proc[v].err = "nil"
          /\ proc[w].loaded = proc[v].loaded
          /\ Len(proc[w].userData.Cities) = Len(proc[w].loaded[1].Cities) + 1
          /\ Len(proc[v].userData.Cities) = Len(proc[v].loaded[1].Cities) + 1
          /\ proc[w].userData # proc[v].userData
          /\ writer = [by |-> w, how |-> "save"] )
        => /\ file.content = <<Encode(proc[w].userData)>>
           /\ \A i \in 1..Len(PersistedCities) :
                 PersistedCities[i] #
                     proc[v].userData.Cities[Len(proc[v].userData.Cities)]

\* the only two requests so far were AddCity of "a" and of "aa" on
\* absent storage, both returned success and only one city is persisted
C4_Witness ==
    /\ reqs = 2
    /\ \A w \in Workers :
          /\ proc[w].pc = "done" /\ proc[w].op = "AddCity" /\ proc[w].err = "nil"
          /\ proc[w].loaded = <<DefaultData>>
    /\ {proc[w].city : w \in Workers} = {<<"a">>, <<"a", "a">>}
    /\ file.content # <<>>
    /\ Len(PersistedCities) = 1

\* C5: a step of GetUserData never changes a persisted document that a
\* mutator has saved
C5_GetNeverChangesSavedDocument ==
    [][\A w \in Workers :
          ( /\ proc[w].op = "GetUserData"
            /\ proc'[w] # proc[w]
            /\ writer.how = "save"
            /\ file.content # <<>> )
          => file' = file]_vars

\* one candidate of a city parameter: not empty, no comma, no space around
Candidate(c) ==
    /\ c # <<>>
    /\ c[1] # Space /\ c[Len(c)] # Space
    /\ \A i \in 1..Len(c) : c[i] # Comma

\* a candidate that is valid UTF-8
PlainName(c) == Candidate(c) /\ \A i \in 1..Len(c) : c[i] # BadByte

\* C6: on absent storage the load creates the file with cities = [] and
\* units = metric and returns that document without error; GetUserData
\* answers with it and AddCity of one name (valid UTF-8) leaves that name
\* alone in the list and units = metric
C6_FreshStorageDefault ==
    (before = AbsentFile /\ call.pc = "done") =>
        /\ call.op = "GetUserData" =>
              /\ call.err = "nil"
              /\ call.loaded = <<[Cities |-> <<>>, Units |-> "metric"]>>
              /\ call.resp = <<[cities |-> <<>>, units |-> "metric"]>>
              /\ file = [exists |-> TRUE,
                         content |-> <<[cities |-> <<>>, units |-> "metric"]>>]
        /\ (call.op = "AddCity" /\ PlainName(call.city)) =>
              /\ call.err = "nil"
              /\ call.loaded = <<[Cities |-> <<>>, Units |-> "metric"]>>
              /\ file = [exists |-> TRUE,
                         content |-> <<[cities |-> <<call.city>>, units |-> "metric"]>>]

\* AddCity of a plain name has returned on storage that was absent
C6_Witness ==
    /\ before = AbsentFile
    /\ call.pc = "done" /\ call.op = "AddCity" /\ call.city = <<"A", "a">>
    /\ file.content = <<[cities |-> <<<<"A", "a">>>>, units |-> "metric"]>>

\* C7: after a successful SaveUserData(d), whatever the file held before, a
\* LoadUserData with no write in between returns a document equal to d
C7_SaveThenLoadReturnsSaved ==
    (call.pc = "done" /\ call.saved # <<>>) =>
        LET l == Run(file, EnterGetUserData).proc IN
        /\ l.err = "nil"
        /\ l.loaded = call.saved

\* C8: AddCity of a candidate that matches an entry of the persisted list but
\* for case succeeds and leaves the persisted list as it was
C8_AddPresentCityKeepsList ==
    ( /\ call.pc = "done" /\ call.op = "AddCity"
      /\ before.exists
      /\ \E i \in 1..Len(before.content[1].cities) :
            SameButCase(before.content[1].cities[i], call.city) )
    => /\ call.err = "nil"
       /\ file.content # <<>>
       /\ PersistedCities = before.content[1].cities

\* AddCity of "A" has returned on a list that holds "a" next to another city
C8_Witness ==
    /\ call.pc = "done" /\ call.op = "AddCity" /\ call.city = <<"A">>
    /\ before.exists
    /\ before.content[1].cities = <<<<"a", "a">>, <<"a">>>>
    /\ file = before

\* C9: DeleteCity of a candidate that matches no entry of the persisted list
\* returns no error and leaves the persisted list as it was
C9_DeleteAbsentCityKeepsList ==
    ( /\ call.pc = "done" /\ call.op = "DeleteCity"
      /\ Candidate(call.city)
      /\ before.exists
      /\ \A i \in 1..Len(before.content[1].cities) :
            ~SameButCase(before.content[1].cities[i], call.city) )
    => /\ call.err = "nil"
       /\ file.content # <<>>
       /\ PersistedCities = before.content[1].cities

\* DeleteCity of "aa" has returned on a list of two other cities
C9_Witness ==
    /\ call.pc = "done" /\ call.op = "DeleteCity" /\ call.city = <<"A", "A">>
    /\ before.exists
    /\ before.content[1].cities = <<<<"A">>, <<ReplChar>>>>
    /\ call.err = "nil"
    /\ file = before

\* C10: UpdateUserUnits with a unit other than exactly "metric" or "imperial"
\* fails with ErrInvalidUnit, loads nothing and saves nothing: the file is as
\* it was, and absent if it was absent
C10_InvalidUnitTouchesNothing ==
    ( /\ call.pc = "done" /\ call.op = "UpdateUserUnits"
      /\ call.body.ok
      /\ call.body.units \notin {"metric", "imperial"} )
    => /\ call.err = "ErrInvalidUnit"
       /\ call.loaded = <<>> /\ call.saved = <<>> /\ call.resp = <<>>
       /\ file = before

\* UpdateUserUnits with "Metric" has returned on absent storage
C10_Witness ==
    /\ call.pc = "done" /\ call.op = "UpdateUserUnits"
    /\ call.body = [ok |-> TRUE, units |-> "Metric"]
    /\ call.err = "ErrInvalidUnit"
    /\ before = AbsentFile /\ file = AbsentFile

\* C11: UpdateUserUnits with a valid unit u calls LoadUserData and then
\* SaveUserData, persists a document whose units are u and whose city list is
\* the loaded one, and answers {"units": u}
C11_UpdateUnitsKeepsCities ==
    ( /\ call.pc = "done" /\ call.op = "UpdateUserUnits"
      /\ call.body.ok
      /\ call.body.units \in {"metric", "imperial"} )
    => /\ call.err = "nil"
       /\ call.calls = <<"LoadUserData", "SaveUserData">>
       /\ call.loaded # <<>>
       /\ before.exists =>
              /\ call.loaded[1].Cities = before.content[1].cities
              /\ call.loaded[1].Units = before.content[1].units
       /\ file.content # <<>>
       /\ file.content[1].units = call.body.units
       /\ file.content[1].cities = call.loaded[1].Cities
       /\ call.resp = <<[units |-> call.body.units]>>

\* UpdateUserUnits with "imperial" has returned on a metric document of two
\* cities
C11_Witness ==
    /\ call.pc = "done" /\ call.op = "UpdateUserUnits"
    /\ call.body.units = "imperial"
    /\ before.exists
    /\ before.content = <<[cities |-> <<<<"a">>, <<"a", Space, "A">>>>, units |-> "metric"]>>
    /\ file.content = <<[cities |-> <<<<"a">>, <<"a", Space, "A">>>>, units |-> "imperial"]>>
    /\ call.resp = <<[units |-> "imperial"]>>

\* the city list and the units a call finds: those of the file, or the
\* defaults when there is no file
FoundCities == IF before.exists THEN before.content[1].cities ELSE <<>>

FoundUnits == IF before.exists THEN before.content[1].units ELSE "metric"

\* the positions just before the comma-separated pieces of s, and the
\* position just after the piece that begins after i
PieceStarts(s) == {0} \cup {i \in 1..Len(s) : s[i] = Comma}

PieceEnd(s, i) ==
    LET later == {k \in (i + 1)..Len(s) : s[k] = Comma} IN
    IF later = {} THEN Len(s) + 1 ELSE Nth(later, 1)

\* the piece of s that begins after i, without the spaces around it
TrimmedPiece(s, i) ==
    LET inner == {k \in (i + 1)..(PieceEnd(s, i) - 1) : s[k] # Space} IN
    IF inner = {} THEN <<>>
    ELSE SubSeq(s, Nth(inner, 1), Nth(inner, Cardinality(inner)))

\* the candidates of a city parameter: its trimmed pieces that are not
\* empty, from left to right
CandidateStarts(s) == {i \in PieceStarts(s) : TrimmedPiece(s, i) # <<>>}

CandidatesOf(s) ==
    [m \in 1..Cardinality(CandidateStarts(s)) |->
        TrimmedPiece(s, Nth(CandidateStarts(s), m))]

\* the candidates of s that match neither an entry of list nor an earlier
\* candidate, from left to right
NewCandidates(list, s) ==
    LET c == CandidatesOf(s)
        new == {m \in 1..Len(c) :
                   /\ \A i \in 1..Len(list) : ~SameButCase(list[i], c[m])
                   /\ \A j \in 1..(m - 1) : ~SameButCase(c[j], c[m])}
    IN [n \in 1..Cardinality(new) |-> c[Nth(new, n)]]

\* C12: AddCity goes through the candidates from left to right and appends
\* each one that matches no entry of the list and no earlier candidate, as
\* it was given, at the end of the list; the entries that were there keep
\* their place and their case, and units stay as they were
C12_AddAppendsVerbatim ==
    (call.pc = "done" /\ call.op = "AddCity" /\ call.city # <<>>) =>
        /\ call.err = "nil"
        /\ file.content =
              <<[cities |-> FoundCities \o NewCandidates(FoundCities, call.city),
                 units |-> FoundUnits]>>

\* the same for the city parameters that are valid UTF-8
AddAppendsPlainNames ==
    ( /\ call.pc = "done" /\ call.op = "AddCity" /\ call.city # <<>>
      /\ \A i \in 1..Len(call.city) : call.city[i] # BadByte ) =>
        /\ call.err = "nil"
        /\ file.content =
              <<[cities |-> FoundCities \o NewCandidates(FoundCities, call.city),
                 units |-> FoundUnits]>>

\* the entries of list that match no candidate of s, in their order
Unmatched(list, s) ==
    LET c == CandidatesOf(s)
        kept == {i \in 1..Len(list) :
                    \A m \in 1..Len(c) : ~SameButCase(list[i], c[m])}
    IN [n \in 1..Cardinality(kept) |-> list[Nth(kept, n)]]

C14_EmptyCityTouchesNothing ==
    ( /\ call.pc = "done" /\ call.op \in {"AddCity", "DeleteCity"}
      /\ call.city = <<>> )
    => /\ call.err = "ErrCityRequired"
       /\ call.calls = <<>>
       /\ call.loaded = <<>> /\ call.saved = <<>> /\ call.resp = <<>>
       /\ file = before

\* AddCity with the empty string has returned on absent storage
C14_Witness ==
    /\ call.pc = "done" /\ call.op = "AddCity" /\ call.city = <<>>
    /\ call.err = "ErrCityRequired"
    /\ before = AbsentFile /\ file = AbsentFile

\* the load of the call fails: os.Open fails, the file holds no complete
\* document, or there is no file and the default cannot be created or written
LoadFails ==
    \/ call.fault = "open"
    \/ before = TruncatedFile
    \/ ~before.exists /\ call.fault \in {"create_default", "write_default"}

\* the load succeeds and the save of the call fails
SaveFails == ~LoadFails /\ call.fault \in {"save_create", "save_write"}

\* the errors the storage service returns from LoadUserData and SaveUserData
LoadErrors ==
    {"failed to open file", "failed to decode file", "failed to create file",
     "failed to write default data"}

SaveErrors == {"failed to create file", "failed to save user data"}

\* the request has passed the checks of its input and has called the storage
Mutating ==
    /\ call.pc = "done"
    /\ call.op \in {"AddCity", "DeleteCity", "UpdateUserUnits"}
    /\ call.err \notin {"ErrCityRequired", "ErrInvalidUnit", "invalid request body"}

\* C15: in AddCity, DeleteCity and UpdateUserUnits a load that fails ends the
\* operation with "failed to load user data" wrapping the error of the load,
\* and SaveUserData is not called; a save that fails ends it with "failed to
\* save user data" wrapping the error of the save; in both cases nothing is
\* written to the response
C15_LoadOrSaveFailureAborts ==
    Mutating =>
        /\ LoadFails =>
              /\ \E e \in LoadErrors : call.err = "failed to load user data: " \o e
              /\ call.calls = <<"LoadUserData">>
              /\ call.loaded = <<>> /\ call.saved = <<>>
              /\ call.resp = <<>>
        /\ SaveFails =>
              /\ \E e \in SaveErrors : call.err = "failed to save user data: " \o e
              /\ call.calls = <<"LoadUserData", "SaveUserData">>
              /\ call.loaded # <<>> /\ call.saved = <<>>
              /\ call.resp = <<>>
        /\ (~LoadFails /\ ~SaveFails) => (call.err = "nil" /\ call.resp # <<>>)

\* UpdateUserUnits has loaded a document and has returned the error of a
\* save whose write failed
C15_Witness ==
    /\ call.pc = "done" /\ call.op = "UpdateUserUnits"
    /\ call.fault = "save_write"
    /\ before.exists /\ before.content # <<>>
    /\ call.loaded # <<>>
    /\ call.err = "failed to save user data: failed to save user data"
    /\ call.resp = <<>>

\* C20: GetUserData calls LoadUserData and nothing else of the storage; it
\* returns and answers with the document the load returned, the cities in
\* their order and the units; when the load fails it returns the wrapped
\* error and no document
C20_GetReturnsLoadedDocument ==
    (call.pc = "done" /\ call.op = "GetUserData") =>
        /\ call.calls = <<"LoadUserData">>
        /\ call.saved = <<>>
        /\ LoadFails =>
              /\ \E e \in LoadErrors : call.err = "failed to load user data: " \o e
              /\ call.loaded = <<>>
              /\ call.userData = [Cities |-> <<>>, Units |-> ""]
              /\ call.resp = <<>>
        /\ ~LoadFails =>
              /\ call.err = "nil"
              /\ call.loaded = <<[Cities |-> FoundCities, Units |-> FoundUnits]>>
              /\ call.userData = call.loaded[1]
              /\ call.resp = <<[cities |-> FoundCities, units |-> FoundUnits]>>
              /\ before.exists => file = before

\* GetUserData has returned the imperial document of two cities
C20_Witness ==
    /\ call.pc = "done" /\ call.op = "GetUserData" /\ call.err = "nil"
    /\ before = [exists |-> TRUE,
                 content |-> <<[cities |-> <<<<"A", "a">>, <<"a">>>>, units |-> "imperial"]>>]
    /\ call.userData = [Cities |-> <<<<"A", "a">>, <<"a">>>>, Units |-> "imperial"]
    /\ call.resp = before.content

\* the string is an https URL with a host, read off its pieces: no control
\* character; "https" in either case, ":" and "//" in front; then a host that
\* is not empty, ends at the first "/" or "?", holds no broken escape and
\* no port that is not a number; then a path up to the first "?" that holds
\* no broken escape
HttpsWithHost(raw) ==
    LET hostEnd == IndexFrom(raw, 5, {Slash, Question})
        pathEnd == IndexFrom(raw, 5, {Question})
    IN /\ \A i \in 1..Len(raw) : raw[i] # Ctl
       /\ Len(raw) >= 5
       /\ raw[1] \in {"https", "HTTPS"}
       /\ raw[2] = Colon /\ raw[3] = Slash /\ raw[4] = Slash
       /\ hostEnd > 5
       /\ \A i \in 5..(pathEnd - 1) : raw[i] # Pct
       /\ \A i \in 5..(hostEnd - 2) :
              raw[i] = Colon => \E j \in (i + 1)..(hostEnd - 1) : raw[j] = Colon

\* C18: validateURL succeeds exactly when the string parses as a URL with
\* the scheme https and a host that is not empty, and then returns the
\* parsed URL written out again; every other string (http, no scheme, no
\* host, not parsable) fails with ErrInvalidURL
C18_ValidateURLAcceptsHttpsWithHost ==
    validation.returned # <<>> =>
        LET raw == validation.rawURL
            res == validation.returned[1]
        IN /\ HttpsWithHost(raw) =>
                 /\ res.err = "nil"
                 /\ res.url = <<"https">> \o SubSeq(raw, 2, Len(raw))
           /\ ~HttpsWithHost(raw) =>
                 /\ res.err = "ErrInvalidURL"
                 /\ res.url = <<>>

\* validateURL has accepted an https URL with host, path and query
C18_Witness ==
    /\ validation.rawURL =
          <<"HTTPS", Colon, Slash, Slash, "w", Slash, "w", Question, "w">>
    /\ validation.returned =
          <<[err |-> "nil",
             url |-> <<"https", Colon, Slash, Slash, "w", Slash, "w", Question, "w">>]>>

\* the error chain holds the error e: errors.Is(err, e)
Is(chain, e) == \E i \in 1..Len(chain) : chain[i] = e

\* C16: GetCurrentWeatherByCity and GetForecastByCity with an empty city
\* fail with ErrCityRequired and send no request, neither to the geocode
\* service nor to the weather service
C16_EmptyCitySendsNothing ==
    (fetch.pc # "idle" /\ fetch.city = <<>>) =>
        /\ fetch.pc = "done"
        /\ fetch.op \in {"GetCurrentWeatherByCity", "GetForecastByCity"}
        /\ Is(fetch.err, "ErrCityRequired")
        /\ fetch.requests = <<>>
        /\ fetch.responses = <<>>
        /\ fetch.resp = <<>>

\* GetForecastByCity with the empty city has returned
C16_Witness ==
    /\ fetch.pc = "done" /\ fetch.op = "GetForecastByCity"
    /\ fetch.city = <<>>
    /\ fetch.err = <<"failed to get forecast data for city", "ErrCityRequired">>
    /\ fetch.requests = <<>>

\* the answer to the geocode call of the fetch, once it is there
GeocodeResponse == fetch.responses[1]

\* C17: when the body of the geocode response cannot be decoded or its
\* result list is empty, the fetch fails with ErrNoResultsForCity and the
\* weather or forecast service is not called: the geocode request is the
\* only request that was sent
C17_NoResultsStopsBeforeWeather ==
    ( /\ fetch.responses # <<>>
      /\ fetch.pc # "geocode_decode"
      /\ \/ ~GeocodeResponse.json
         \/ ~GeocodeResponse.arrived
         \/ GeocodeResponse.results = <<>> )
    => /\ fetch.pc = "done"
       /\ Is(fetch.err, "ErrNoResultsForCity")
       /\ fetch.resp = <<>>
       /\ Len(fetch.requests) = 1
       /\ fetch.requests[1].to = "geocode"
       /\ Len(fetch.responses) = 1

\* a fetch of the current weather has ended on a geocode document without
\* results
C17_Witness ==
    /\ fetch.pc = "done" /\ fetch.op = "GetCurrentWeatherByCity"
    /\ fetch.city = <<"a", Space, "A">>
    /\ fetch.responses = <<Response(TRUE, <<>>, "weather", TRUE)>>
    /\ fetch.err = <<"failed to get weather data for city", "failed to get geocode",
                     "ErrNoResultsForCity">>
    /\ Len(fetch.requests) = 1
    /\ fetch.requests[1].url =
          <<"https", Colon, Slash, Slash, "w", Slash, "w", Question,
            "w", "a", "+", "A", "w">>

\* C19: every outbound call returns a response or fails within its
\* deadline, so that every weather fetch, whether the upstream services
\* answer, fail or stay silent, ends with a value or an error; a deadline
\* that passes ends the fetch with the error of the transport
C19_FetchAlwaysReturns ==
    /\ [](fetch.deadline = "expired" =>
              /\ fetch.pc = "done"
              /\ Is(fetch.err, "failed to perform HTTP request")
              /\ fetch.resp = <<>>)
    /\ (fetch.pc \notin {"idle", "done"}) ~> (fetch.pc = "done")

\* the weather service stayed silent and the fetch has ended with the
\* error of the deadline
C19_Witness ==
    /\ fetch.pc = "done"
    /\ fetch.deadline = "expired"
    /\ Len(fetch.requests) = 2 /\ fetch.requests[2].to = "weather"
    /\ Len(fetch.responses) = 1
    /\ fetch.err = <<"failed to get weather data for city", "failed to get weather data",
                     "failed to perform HTTP request", "context deadline exceeded">>

\* the requests of the fetch in progress that went to one upstream service
RequestsTo(to) == {i \in 1..Len(fetch.requests) : fetch.requests[i].to = to}

\* C21: no retries. A weather fetch sends at most one geocode request and
\* at most one weather request, whatever errors occur, and each request
\* that went out is one exchange: it gets at most one response, and a
\* request is only ever sent when every earlier one has been answered.
C21_NoRetries ==
    /\ Cardinality(RequestsTo("geocode")) <= 1
    /\ Cardinality(RequestsTo("weather")) <= 1
    /\ Len(fetch.requests) <= 2
    /\ Len(fetch.responses) <= Len(fetch.requests)
    /\ Len(fetch.requests) <= Len(fetch.responses) + 1

\* a fetch that failed in the transport of its weather request, after one
\* geocode request and one weather request
C21_Witness ==
    /\ fetch.pc = "done"
    /\ Is(fetch.err, "transport error")
    /\ Cardinality(RequestsTo("geocode")) = 1
    /\ Cardinality(RequestsTo("weather")) = 1
    /\ Len(fetch.responses) = 1

\* the fetch in progress is about to call doRequest with an address that
\* validateURL rejects
RejectedURL ==
    /\ fetch.pc \in {"geocode_request", "weather_request"}
    /\ validateURL(fetch.rawURL).err # "nil"

\* C22: doRequest fails fast on a rejected URL. When validateURL rejects the
\* address, the call returns an error wrapping ErrInvalidURL, no context is
\* set up, no request is built and nothing is sent: the fetch ends with the
\* requests it had sent before, none when the geocode address was rejected
\* and the geocode request alone when the weather address was rejected.
C22_RejectedURLFailsFast ==
    [][RejectedURL =>
          /\ fetch'.pc = "done"
          /\ fetch'.resp = <<>>
          /\ Is(fetch'.err, "failed to validate URL")
          /\ Is(fetch'.err, "ErrInvalidURL")
          /\ fetch'.requests = fetch.requests
          /\ fetch'.responses = fetch.responses
          /\ fetch'.deadline = fetch.deadline
          /\ IF fetch.pc = "geocode_request"
             THEN fetch'.requests = <<>>
             ELSE /\ Len(fetch'.requests) = 1
                  /\ fetch'.requests[1].to = "geocode"]_vars

\* a fetch that ended on a rejected weather address after its geocode
\* request had been answered
C22_Witness ==
    /\ fetch.pc = "done"
    /\ Is(fetch.err, "ErrInvalidURL")
    /\ Len(fetch.requests) = 1
    /\ fetch.requests[1].to = "geocode"
    /\ Len(fetch.responses) = 1
    /\ validateURL(fetch.rawURL).err # "nil"

\* the fetch in progress has returned the weather data
FetchSucceeded == fetch.pc = "done" /\ fetch.err = <<>> /\ fetch.resp # <<>>

\* the address of the service the fetch in progress was made for
WeatherTemplate ==
    IF fetch.op = "GetCurrentWeatherByCity" THEN service.CurrentWeatherAPIURL
    ELSE service.ForecastWeatherAPIURL

\* a template with its first %f written as lat and its second as lon, each
\* with six digits after the point
WithCoordinates(template, lat, lon) ==
    LET verbs == {i \in 1..Len(template) : template[i] = "%f"}
        first == CHOOSE i \in verbs : \A j \in verbs : i <= j
    IN [i \in 1..Len(template) |->
           IF i = first THEN FormatFloat(lat)
           ELSE IF i \in verbs THEN FormatFloat(lon)
           ELSE template[i]]

\* C23: in every weather fetch the weather request is sent only when the
\* geocode request has been answered and its body decoded, and in every
\* successful fetch, for the current weather and for the forecast alike,
\* there are exactly two requests, both GET, the geocode request first, and
\* the weather request goes to the template of the fetch formatted with
\* the latitude and then the longitude of the first geocode result.
C23_GeocodeThenWeather ==
    /\ RequestsTo("weather") # {} =>
          /\ Len(fetch.responses) >= 1
          /\ Len(fetch.closed) >= 1
          /\ fetch.closed[1] = "geocode"
          /\ fetch.requests[1].to = "geocode"
    /\ FetchSucceeded =>
          /\ Len(fetch.requests) = 2
          /\ fetch.requests[1].to = "geocode"
          /\ fetch.requests[2].to = "weather"
          /\ \A i \in 1..2 : fetch.requests[i].method = "GET"
          /\ fetch.responses[1].results # <<>>
          /\ fetch.requests[2].url =
                 WithCoordinates(WeatherTemplate,
                                 fetch.responses[1].results[1].Latitude,
                                 fetch.responses[1].results[1].Longitude)
          /\ fetch.closed = <<"geocode", "weather">>
          /\ fetch.resp = <<fetch.responses[2].data>>

\* a successful forecast fetch whose geocode response held two results,
\* the first with a latitude that differs from its longitude
C23_Witness ==
    /\ FetchSucceeded
    /\ fetch.op = "GetForecastByCity"
    /\ Len(fetch.responses[1].results) = 2
    /\ fetch.responses[1].results[1].Latitude = "3.1234567"
    /\ fetch.responses[1].results[1].Longitude = "1.5"

\* the file found by the call cannot be opened although a file may be
\* there, or it is there and holds no document that can be decoded
Unreadable == call.fault = "open" \/ (before.exists /\ before.content = <<>>)

\* C24: when the file exists but cannot be decoded, or cannot be opened for
\* a reason other than its absence, LoadUserData returns an error and the
\* empty document, and the file is left as it was found: not created, not
\* truncated, not replaced by the default document.
C24_FailedLoadLeavesFile ==
    (call.pc = "done" /\ call.calls # <<>> /\ Unreadable) =>
        /\ call.calls = <<"LoadUserData">>
        /\ call.err = "failed to load user data: " \o
               (IF call.fault = "open" THEN "failed to open file"
                ELSE "failed to decode file")
        /\ call.loaded = <<>>
        /\ call.userData = [Cities |-> <<>>, Units |-> ""]
        /\ file = before

\* GetUserData has found a file without a document in it and has returned
\* the error of the decoder
C24_Witness ==
    /\ call.pc = "done" /\ call.op = "GetUserData"
    /\ call.fault = "none"
    /\ before.exists /\ before.content = <<>>
    /\ call.err = "failed to load user data: failed to decode file"
    /\ file = before

\* the fetch in progress is inside getGeocode or getWeatherData with a
\* response whose body it still has to decode
HoldsBody == fetch.pc \in {"geocode_decode", "weather_decode"}

\* C25: every response that doRequest returned to getGeocode or to
\* getWeatherData has its body closed exactly once when that function has
\* returned, after a successful decode and after a failed one alike: the
\* bodies closed are those of the responses received, in their order, each
\* once, all but the one still being decoded. A request that got no
\* response (rejected address, transport error, deadline) has no body and
\* none is closed for it.
C25_BodyClosedOnce ==
    /\ Len(fetch.closed) = Len(fetch.responses) - (IF HoldsBody THEN 1 ELSE 0)
    /\ \A i \in 1..Len(fetch.closed) : fetch.closed[i] = fetch.requests[i].to
    /\ \A i, j \in 1..Len(fetch.closed) : fetch.closed[i] = fetch.closed[j] => i = j

\* a fetch that failed to decode the weather response and has closed both
\* bodies
C25_Witness ==
    /\ fetch.pc = "done"
    /\ Is(fetch.err, "failed to decode weather data")
    /\ Len(fetch.responses) = 2
    /\ fetch.closed = <<"geocode", "weather">>

\* a fetch whose weather request failed in the transport: one body, closed
C25_NoBodyWitness ==
    /\ fetch.pc = "done"
    /\ Is(fetch.err, "failed to perform HTTP request")
    /\ Len(fetch.requests) = 2
    /\ fetch.closed = <<"geocode">>

\* C27: the context of an outbound call is cancelled on every way out of
\* doRequest, so a context with a running deadline exists only while the
\* fetch waits inside doRequest, and whenever getGeocode or getWeatherData
\* holds a response whose body it is about to decode, the context of that
\* request has already been cancelled.
C27_CancelledBeforeDecode ==
    /\ HoldsBody => fetch.deadline = "cancelled"
    /\ fetch.deadline = "armed" <=> fetch.pc \in {"geocode_wait", "weather_wait"}
    /\ (fetch.pc = "done" /\ fetch.requests # <<>>) =>
           fetch.deadline \in {"cancelled", "expired"}

\* getWeatherData is about to decode a body that had not arrived in full
\* when the context of its request was cancelled
C27_Witness ==
    /\ fetch.pc = "weather_decode"
    /\ fetch.deadline = "cancelled"
    /\ ~fetch.responses[2].arrived

\* C30: GetCurrentWeatherByCity and GetForecastByCity never go to the
\* preference store. No step of a weather fetch, on the way to success or
\* to any failure, calls LoadUserData or SaveUserData or changes the file:
\* a file that is absent stays absent and a document stays as it is.
C30_FetchLeavesStorage ==
    /\ [](\A w \in Workers : proc[w].calls = <<>> /\ proc[w].pc = "idle")
    /\ [][file' = file]_vars

\* a fetch has returned the weather data and there is still no file
C30_Witness ==
    /\ fetch.pc = "done" /\ fetch.err = <<>> /\ fetch.resp # <<>>
    /\ Len(fetch.requests) = 2
    /\ ~file.exists

\* the city parameter of the call is not empty and holds nothing but commas
\* and spaces
BlankCity ==
    /\ call.city # <<>>
    /\ \A i \in 1..Len(call.city) : call.city[i] \in {Comma, Space}

\* C28: AddCity and DeleteCity with a parameter that is not empty but holds
\* only commas and whitespace do not fail with ErrCityRequired. Every piece
\* is discarded: the document is loaded (the default is created when there
\* is no file), saved back with the cities and units it had, and the call
\* returns without error and answers.
C28_BlankCityIsNoOp ==
    (call.pc = "done" /\ call.op \in {"AddCity", "DeleteCity"} /\ BlankCity) =>
        /\ call.err = "nil"
        /\ call.calls = <<"LoadUserData", "SaveUserData">>
        /\ call.loaded = <<[Cities |-> FoundCities, Units |-> FoundUnits]>>
        /\ call.saved = call.loaded
        /\ file.exists
        /\ file.content = <<[cities |-> FoundCities, units |-> FoundUnits]>>
        /\ call.resp = IF call.op = "AddCity" THEN file.content
                       ELSE <<FoundCities>>

\* AddCity(" , ") has created the default document and returned success
C28_Witness ==
    /\ call.pc = "done" /\ call.op = "AddCity"
    /\ call.city = <<Space, Comma, Space>>
    /\ ~before.exists
    /\ call.err = "nil"
    /\ file.content = <<[cities |-> <<>>, units |-> "metric"]>>

\* DeleteCity(",") has saved a document of two cities back as it was
C28_DeleteWitness ==
    /\ call.pc = "done" /\ call.op = "DeleteCity"
    /\ call.city = <<Comma>>
    /\ before.exists /\ Len(FoundCities) = 2
    /\ call.err = "nil"
    /\ file = before

\* C29: each mutator is idempotent on a document without duplicates. When
\* AddCity, DeleteCity or UpdateUserUnits has been called and the same call
\* is made again, once or more often, the file after the later call is the
\* file the call before it left.
C29_MutatorsIdempotent ==
    reqs > 0 => (call.pc = "done" /\ file = before)

\* AddCity("A, aa") was called on a document holding "a", has appended
\* "aa", and was called again
C29_Witness ==
    /\ reqs = 1
    /\ call.op = "AddCity"
    /\ call.city = <<"A", Comma, Space, "a", "a">>
    /\ call.err = "nil"
    /\ call.loaded[1].Cities = <<<<"a">>, <<"a", "a">>>>
    /\ file = before

\* DeleteCity("a") has removed "A" from a document, and was called again
C29_DeleteWitness ==
    /\ reqs = 1
    /\ call.op = "DeleteCity"
    /\ call.city = <<"a">>
    /\ call.err = "nil"
    /\ file = before
    /\ PersistedCities = <<<<"a", Space, "A">>>>

\* a file.Close() of the storage service has failed during the call
CloseFails == call.logged # <<>>

\* an open, decode, create or write of the storage has failed during the
\* call: in its load, or in the save it went on to
StorageFails ==
    \/ LoadFails
    \/ SaveFails /\ call.calls = <<"LoadUserData", "SaveUserData">>

\* C26: every failure inside an operation makes the operation return an
\* error to its caller, and nothing else does once the input has been
\* accepted: a call that has gone to the storage returns an error exactly
\* when an open, decode, create, write or close of the storage failed; a
\* city that is already there on add, or not there on delete, fails
\* nothing.
C26_EveryFailureReturnsError ==
    (call.pc = "done" /\ call.calls # <<>>) =>
        ((StorageFails \/ CloseFails) <=> call.err # "nil")

\* the same for every failure but that of file.Close(): an open, decode,
\* create or write that fails is returned, and without one the call
\* returns nil
FailuresButCloseReturnErrors ==
    (call.pc = "done" /\ call.calls # <<>>) =>
        (StorageFails <=> call.err # "nil")

\* SaveUserData has written the document, the Close of the file has
\* failed, and the call has returned nil and answered
CloseErrorNotReturned ==
    /\ call.pc = "done" /\ call.op = "AddCity"
    /\ call.fault = "save_close"
    /\ CloseFails
    /\ call.err = "nil"
    /\ call.resp # <<>>

====
